---- MODULE Spec2Model ----
(***************************************************************************)
(* Model of alfred-caniuse-rs: the on-disk cache of the feature database   *)
(* (src/src/cache.rs) and the self-update check (src/src/update.rs).       *)
(*                                                                         *)
(* The file system is one cache directory holding two files.  Every        *)
(* handler is one atomic action (the program is single-threaded); the      *)
(* outcome of each file-system or network call that can fail for reasons   *)
(* outside the program is an input of the action.                          *)
(***************************************************************************)
EXTENDS Integers, Sequences, FiniteSets, TLC

VARIABLES
    now,        \* the system clock, in seconds
    ver,        \* SELF_VERSION of the installed build
    dir,        \* whether the cache directory exists
    cacheFile,  \* caniuse.zst: NoFile or [created, bytes]
    checkFile,  \* update-check.json: NoCheckFile or [bytes]
    ev,         \* what the last handler call did (its locals and its result)
    prev,       \* when ev is a cache call: the cache call made just before
                \* it, if nothing else happened in between (NoEv otherwise)
    hist,       \* history: when the last remote lookup was made, when the
                \* last cache_put succeeded
    main,       \* try_main: where the running invocation stands, its locals
    race,       \* two processes on one cache path, file step by file step:
                \* the path, the files, each process's position and locals
    look        \* Db::lookup: the database, the query and the list returned

vars == <<now, ver, dir, cacheFile, checkFile, ev, prev, hist, main, race, look>>

(***************************************************************************)
(* Bounds and program constants                                            *)
(***************************************************************************)
\* clock readings are taken up to MaxSecs seconds after each period boundary
MaxSecs == 1
\* number of distinct databases the network can serve
MaxDb == 2

FOUR_HOURS_SECS == 3600 * 4
MAX_AGE == FOUR_HOURS_SECS
DAY_IN_SECS == 3600 * 24

\* the clock readings at which the cache's age test changes its answer, and
\* those at which the update check's does
CacheTimes == { p + s : p \in {0, FOUR_HOURS_SECS}, s \in 0..MaxSecs }
UpdateTimes == { p + s : p \in {0, DAY_IN_SECS}, s \in 0..MaxSecs }

\* a path with no file behind it
NoFile == [exists |-> FALSE, created |-> 0, bytes |-> <<>>]

\* Option<T>
None == <<>>
Some(x) == <<x>>

\* a database: base_url and the two maps, here told apart by the feature slugs
Db(n) == [base_url |-> "caniuse.rs", versions |-> {"1.0"}, features |-> 1..n]
DbValues == { Db(n) : n \in 1..MaxDb }

(***************************************************************************)
(* Encoding of the cache file: pretty JSON wrapped in a zstd frame         *)
(***************************************************************************)
\* serde_json::to_vec_pretty(db)
DbToJson(db) ==
    <<"{", "base_url", db.base_url, "versions", db.versions,
      "features", db.features, "}">>

\* serde_json::from_slice::<Db> succeeds
JsonIsDb(buf) ==
    /\ Len(buf) = 8
    /\ buf[1] = "{" /\ buf[2] = "base_url" /\ buf[4] = "versions"
    /\ buf[6] = "features" /\ buf[8] = "}"

JsonToDb(buf) == [base_url |-> buf[3], versions |-> buf[5], features |-> buf[7]]

\* zstd::encode_all: a frame header (magic, content size) then the content
ZstdEncode(buf) == <<"zstd", Len(buf)>> \o buf

\* zstd::decode_all succeeds: the magic is there and the frame is complete
ZstdIsFrame(bytes) ==
    /\ Len(bytes) >= 2
    /\ bytes[1] = "zstd"
    /\ bytes[2] = Len(bytes) - 2

ZstdDecode(bytes) == SubSeq(bytes, 3, Len(bytes))

\* bytes that some other program may leave in the cache file
GarbageBytes == { <<"junk">>, ZstdEncode(<<"junk">>) }

(***************************************************************************)
(* What a handler call leaves behind for inspection: its arguments, the    *)
(* locals it computed, the error it raised and what it returned.           *)
(***************************************************************************)
NoEv ==
    [op |-> "none",      \* "put", "fetch" or "check"; "panic" when the call
                         \* unwound instead of returning
     db |-> None,        \* cache_put: the argument
     pre |-> "absent",   \* the file when the call started: "absent", "fresh"
                         \* (age within MAX_AGE), "stale" or "future"
     fault |-> "none",   \* the call the environment made fail, if any; of
                         \* a panic, the handler that was called
     rmFails |-> FALSE,  \* the environment made the clean-up remove_file fail
     err |-> "none",     \* the error the inner function returned, if any
     cleanup |-> "none", \* the outer remove_file: "none" (not tried), "ok", "failed"
     result |-> None,    \* the returned Option: of a Db (cache_fetch), of
                         \* LATEST_URL (self_update_check)
     readFails |-> FALSE, \* self_update_check: fs::read failed, not with NotFound
     need |-> "none",    \* self_need_update_check: "Yes", "No", "KnownOutdated", "Err"
     probed |-> FALSE,   \* the remote lookup was made
     lookup |-> None,    \* what the lookup answered: Some(location) or None
     inner |-> "none"]   \* self_update_check_inner: "true", "false", "err"

(***************************************************************************)
(* File-system primitives                                                  *)
(***************************************************************************)
\* fs::File::create over `file` at time t: a new file is created now, an
\* existing one is truncated and keeps its creation time
FileCreate(file, t) ==
    IF file.exists THEN [file EXCEPT !.bytes = <<>>]
    ELSE [exists |-> TRUE, created |-> t, bytes |-> <<>>]

(***************************************************************************)
(* cache.rs                                                                *)
(***************************************************************************)
\* outcomes of the environment for one cache_fetch: which call (if any) fails
\* with an I/O error other than NotFound
FetchFaults == {"none", "open", "metadata", "read"}

\* faulty variant: the age test with >= for >
TooOldAtMaxAge(cache_age) == cache_age >= MAX_AGE

\* the age test of cache_fetch_inner
TooOld(cache_age) == cache_age > MAX_AGE

\* faulty variant: NotFound is an error of the open like any other
cache_fetch_inner_no_special_case(file, t, fault) ==
    IF fault = "open" \/ ~file.exists THEN [ok |-> FALSE, val |-> None, err |-> "open"]
    ELSE IF fault = "metadata" THEN [ok |-> FALSE, val |-> None, err |-> "metadata"]
    ELSE IF file.created > t THEN [ok |-> FALSE, val |-> None, err |-> "elapsed"]
    ELSE IF TooOld(t - file.created) THEN [ok |-> FALSE, val |-> None, err |-> "too old"]
    ELSE IF fault = "read" THEN [ok |-> FALSE, val |-> None, err |-> "read"]
    ELSE IF ~ZstdIsFrame(file.bytes) THEN [ok |-> FALSE, val |-> None, err |-> "zstd"]
    ELSE IF ~JsonIsDb(ZstdDecode(file.bytes)) THEN [ok |-> FALSE, val |-> None, err |-> "json"]
    ELSE [ok |-> TRUE, val |-> Some(JsonToDb(ZstdDecode(file.bytes))), err |-> "none"]

\* cache_fetch_inner: [ok, val, err]
cache_fetch_inner(file, t, fault) ==
    IF fault = "open" THEN [ok |-> FALSE, val |-> None, err |-> "open"]
    ELSE IF ~file.exists THEN [ok |-> TRUE, val |-> None, err |-> "none"]
    ELSE IF fault = "metadata" THEN [ok |-> FALSE, val |-> None, err |-> "metadata"]
    \* SystemTime::elapsed fails when the creation time is in the future
    ELSE IF file.created > t THEN [ok |-> FALSE, val |-> None, err |-> "elapsed"]
    ELSE IF TooOld(t - file.created) THEN [ok |-> FALSE, val |-> None, err |-> "too old"]
    ELSE IF fault = "read" THEN [ok |-> FALSE, val |-> None, err |-> "read"]
    ELSE IF ~ZstdIsFrame(file.bytes) THEN [ok |-> FALSE, val |-> None, err |-> "zstd"]
    ELSE IF ~JsonIsDb(ZstdDecode(file.bytes)) THEN [ok |-> FALSE, val |-> None, err |-> "json"]
    ELSE [ok |-> TRUE, val |-> Some(JsonToDb(ZstdDecode(file.bytes))), err |-> "none"]

\* faulty variant: remove_file reports success and leaves the file in place
RemoveFileKeepsFile(file, fails) ==
    IF file.exists /\ ~fails THEN [ok |-> TRUE, file |-> file]
    ELSE [ok |-> FALSE, file |-> file]

\* fs::remove_file: [ok, file]; removing a missing file is an error (NotFound)
RemoveFile(file, fails) ==
    IF file.exists /\ ~fails THEN [ok |-> TRUE, file |-> NoFile]
    ELSE [ok |-> FALSE, file |-> file]

\* the best-effort clean up of cache_fetch and cache_put: [file, cleanup]
CleanUp(file, rmFails) ==
    LET r == RemoveFile(file, rmFails) IN
    [file |-> r.file, cleanup |-> IF r.ok THEN "ok" ELSE "failed"]

\* faulty variant: cache_fetch turns an error into None without the clean up
cache_fetch_no_cleanup(file, t, fault, rmFails) ==
    LET r == cache_fetch_inner(file, t, fault) IN
    [file |-> file, result |-> IF r.ok THEN r.val ELSE None,
     err |-> r.err, cleanup |-> "none"]

\* cache_fetch: [file, result, err, cleanup]
cache_fetch(file, t, fault, rmFails) ==
    LET r == cache_fetch_inner(file, t, fault) IN
    IF r.ok THEN [file |-> file, result |-> r.val, err |-> "none", cleanup |-> "none"]
    ELSE LET c == CleanUp(file, rmFails) IN
         [file |-> c.file, result |-> None, err |-> r.err, cleanup |-> c.cleanup]

\* outcomes of the environment for one cache_put
PutFaults == {"none", "create_dir_all", "remove_file", "create", "encode", "write"}

\* faulty variant: no remove_file, File::create truncates the file in place
cache_put_inner_truncates(db, d, file, t, fault, cut) ==
    IF fault = "create_dir_all"
    THEN [ok |-> FALSE, err |-> "create_dir_all", dir |-> d, file |-> file]
    ELSE IF fault \in {"remove_file", "create"}
    THEN [ok |-> FALSE, err |-> fault, dir |-> TRUE, file |-> file]
    ELSE LET created == FileCreate(file, t)
             enc == ZstdEncode(DbToJson(db)) IN
         IF fault = "encode"
         THEN [ok |-> FALSE, err |-> "encode", dir |-> TRUE, file |-> created]
         ELSE IF fault = "write"
         THEN [ok |-> FALSE, err |-> "write", dir |-> TRUE,
               file |-> [created EXCEPT !.bytes = SubSeq(enc, 1, cut)]]
         ELSE [ok |-> TRUE, err |-> "none", dir |-> TRUE,
               file |-> [created EXCEPT !.bytes = enc]]

\* cache_put_inner: [ok, err, dir, file]
cache_put_inner(db, d, file, t, fault, cut) ==
    IF fault = "create_dir_all"
    THEN [ok |-> FALSE, err |-> "create_dir_all", dir |-> d, file |-> file]
    ELSE LET rm == RemoveFile(file, fault = "remove_file") IN
    \* `fs::remove_file(cache_path())?` returns on every error, NotFound included
    IF ~rm.ok
    THEN [ok |-> FALSE, err |-> "remove_file", dir |-> TRUE, file |-> rm.file]
    ELSE IF fault = "create"
    THEN [ok |-> FALSE, err |-> "create", dir |-> TRUE, file |-> rm.file]
    ELSE LET created == FileCreate(rm.file, t)
             enc == ZstdEncode(DbToJson(db)) IN
         IF fault = "encode"
         THEN [ok |-> FALSE, err |-> "encode", dir |-> TRUE, file |-> created]
         ELSE IF fault = "write"
         THEN [ok |-> FALSE, err |-> "write", dir |-> TRUE,
               file |-> [created EXCEPT !.bytes = SubSeq(enc, 1, cut)]]
         ELSE [ok |-> TRUE, err |-> "none", dir |-> TRUE,
               file |-> [created EXCEPT !.bytes = enc]]

\* faulty variant: cache_put logs the error and leaves the file as it is
cache_put_no_cleanup(db, d, file, t, fault, cut, rmFails) ==
    LET r == cache_put_inner(db, d, file, t, fault, cut) IN
    [dir |-> r.dir, file |-> r.file, err |-> r.err, cleanup |-> "none"]

\* cache_put: [dir, file, err, cleanup]
cache_put(db, d, file, t, fault, cut, rmFails) ==
    LET r == cache_put_inner(db, d, file, t, fault, cut) IN
    IF r.ok THEN [dir |-> r.dir, file |-> r.file, err |-> "none", cleanup |-> "none"]
    ELSE LET c == CleanUp(r.file, rmFails) IN
         [dir |-> r.dir, file |-> c.file, err |-> r.err, cleanup |-> c.cleanup]

\* how many bytes of `enc` a failing write_all may have written: none, half
\* of them, all but the last
WriteCuts(enc) == {0, Len(enc) \div 2, Len(enc) - 1}

(***************************************************************************)
(* update.rs                                                               *)
(***************************************************************************)
LATEST_URL == "https://github.com/robjtede/alfred-caniuse-rs/releases"

\* version strings and redirect locations, as sequences of characters
Versions == { <<1>>, <<1, 0>> }
Locations == { <<1, 0>>, <<2>>, <<2, 1>> }

\* str::contains
Contains(s, sub) ==
    \E i \in 1..(Len(s) - Len(sub) + 1) : SubSeq(s, i, i + Len(sub) - 1) = sub

\* the update-check file; its creation time is never read
NoCheckFile == [exists |-> FALSE, bytes |-> <<>>]

\* serde_json::to_vec_pretty(&UpdateCheck)
UpdateCheckToJson(r) ==
    <<"{", "update_needed", r.update_needed, "checked_with", r.checked_with,
      "last_check", r.last_check, "}">>

\* serde_json::from_slice::<UpdateCheck> succeeds
JsonIsUpdateCheck(buf) ==
    /\ Len(buf) = 8
    /\ buf[1] = "{" /\ buf[2] = "update_needed" /\ buf[4] = "checked_with"
    /\ buf[6] = "last_check" /\ buf[8] = "}"

JsonToUpdateCheck(buf) ==
    [update_needed |-> buf[3], checked_with |-> buf[5], last_check |-> buf[7]]

\* bytes that are no UpdateCheck (another program's, or an older format)
GarbageCheckBytes == { <<"junk">> }

\* faulty variant: the update_needed test comes before the version test, and the
\* age test is >= for >
remote_check_needed_reordered(self, v, t) ==
    IF self.update_needed THEN "KnownOutdated"
    ELSE IF v # self.checked_with THEN "Yes"
    ELSE IF t - self.last_check >= DAY_IN_SECS THEN "Yes"
    ELSE "No"

\* faulty variant: the age test comes before the update_needed test
remote_check_needed_age_first(self, v, t) ==
    IF v # self.checked_with THEN "Yes"
    ELSE IF t - self.last_check > DAY_IN_SECS THEN "Yes"
    ELSE IF self.update_needed THEN "KnownOutdated"
    ELSE "No"

\* faulty variant: a record older than an hour asks for a new lookup
remote_check_needed_hourly(self, v, t) ==
    IF v # self.checked_with THEN "Yes"
    ELSE IF self.update_needed THEN "KnownOutdated"
    ELSE IF t - self.last_check > 3600 THEN "Yes"
    ELSE "No"

\* faulty variant: the age is computed without a sign (as SystemTime::elapsed
\* does), and a last_check later than the time asks for a new lookup
remote_check_needed_unsigned(self, v, t) ==
    IF v # self.checked_with THEN "Yes"
    ELSE IF self.update_needed THEN "KnownOutdated"
    ELSE IF t < self.last_check THEN "Yes"
    ELSE IF t - self.last_check > DAY_IN_SECS THEN "Yes"
    ELSE "No"

\* UpdateCheck::remote_check_needed, SELF_VERSION being v and the time t
remote_check_needed(self, v, t) ==
    IF v # self.checked_with THEN "Yes"
    ELSE IF self.update_needed THEN "KnownOutdated"
    ELSE IF t - self.last_check > DAY_IN_SECS THEN "Yes"
    ELSE "No"

\* faulty variant: NotFound is no special case of the read
self_need_update_check_no_special_case(file, v, t, readFails) ==
    IF readFails \/ ~file.exists THEN "Err"
    ELSE IF ~JsonIsUpdateCheck(file.bytes) THEN "Err"
    ELSE remote_check_needed(JsonToUpdateCheck(file.bytes), v, t)

\* self_need_update_check: "Yes", "No", "KnownOutdated" or "Err"
self_need_update_check(file, v, t, readFails) ==
    IF readFails THEN "Err"
    ELSE IF ~file.exists THEN "Yes"
    ELSE IF ~JsonIsUpdateCheck(file.bytes) THEN "Err"
    ELSE remote_check_needed(JsonToUpdateCheck(file.bytes), v, t)

\* faulty variant: the location must end with the version
UpdateNeededUnlessSuffix(latest_url, v) ==
    ~(/\ Len(latest_url) >= Len(v)
      /\ SubSeq(latest_url, Len(latest_url) - Len(v) + 1, Len(latest_url)) = v)

\* `!latest_url.contains(SELF_VERSION)`
UpdateNeeded(latest_url, v) == ~Contains(latest_url, v)

\* outcomes of the environment for the file calls of self_update_check_inner
InnerFaults == {"none", "create_dir_all", "create", "encode", "write"}

\* faulty variant: the file is created (truncated) before the lookup is made
self_update_check_inner_create_first(file, d, v, t, lookup, fault, cut) ==
    IF lookup = None
    THEN [res |-> "err", dir |-> TRUE, file |-> [exists |-> TRUE, bytes |-> <<>>]]
    ELSE IF fault \in {"create_dir_all", "create"}
    THEN [res |-> "err", dir |-> d, file |-> file]
    ELSE LET update_needed == ~Contains(lookup[1], v)
             enc == UpdateCheckToJson([update_needed |-> update_needed,
                                       checked_with |-> v, last_check |-> t]) IN
         IF fault \in {"encode", "write"}
         THEN [res |-> "err", dir |-> TRUE,
               file |-> [exists |-> TRUE, bytes |-> SubSeq(enc, 1, cut)]]
         ELSE [res |-> IF update_needed THEN "true" ELSE "false", dir |-> TRUE,
               file |-> [exists |-> TRUE, bytes |-> enc]]

\* faulty variant: the answer is what the location says, also when the record
\* could not be created or written
self_update_check_inner_answers_unwritten(file, d, v, t, lookup, fault, cut) ==
    IF lookup = None THEN [res |-> "err", dir |-> d, file |-> file]
    ELSE LET update_needed == UpdateNeeded(lookup[1], v)
             enc == UpdateCheckToJson([update_needed |-> update_needed,
                                       checked_with |-> v, last_check |-> t])
             res == IF update_needed THEN "true" ELSE "false" IN
         IF fault = "create_dir_all" THEN [res |-> res, dir |-> d, file |-> file]
         ELSE IF fault = "create" THEN [res |-> res, dir |-> TRUE, file |-> file]
         ELSE IF fault = "encode"
         THEN [res |-> res, dir |-> TRUE, file |-> [exists |-> TRUE, bytes |-> <<>>]]
         ELSE IF fault = "write"
         THEN [res |-> res, dir |-> TRUE,
               file |-> [exists |-> TRUE, bytes |-> SubSeq(enc, 1, cut)]]
         ELSE [res |-> res, dir |-> TRUE, file |-> [exists |-> TRUE, bytes |-> enc]]

\* self_update_check_inner: [res, dir, file]; res is "true", "false" or "err"
self_update_check_inner(file, d, v, t, lookup, fault, cut) ==
    IF lookup = None THEN [res |-> "err", dir |-> d, file |-> file]
    ELSE IF fault = "create_dir_all" THEN [res |-> "err", dir |-> d, file |-> file]
    ELSE IF fault = "create" THEN [res |-> "err", dir |-> TRUE, file |-> file]
    ELSE LET update_needed == UpdateNeeded(lookup[1], v)
             last_check == [update_needed |-> update_needed,
                            checked_with |-> v,
                            last_check |-> t]
             enc == UpdateCheckToJson(last_check) IN
         \* File::create has truncated the file by now
         IF fault = "encode"
         THEN [res |-> "err", dir |-> TRUE, file |-> [exists |-> TRUE, bytes |-> <<>>]]
         ELSE IF fault = "write"
         THEN [res |-> "err", dir |-> TRUE,
               file |-> [exists |-> TRUE, bytes |-> SubSeq(enc, 1, cut)]]
         ELSE [res |-> IF update_needed THEN "true" ELSE "false", dir |-> TRUE,
               file |-> [exists |-> TRUE, bytes |-> enc]]

\* faulty variant: every decision goes on to the remote lookup
FallsThroughAlways(need) == TRUE

\* whether self_update_check goes on to the remote lookup
FallsThrough(need) == need \in {"Yes", "Err"}

\* faulty variant: a record that cannot be read counts as known outdated, and a known
\* outdated record is looked up again
self_update_check_trusts_error(file, d, v, t, need, rmFails, lookup, fault, cut) ==
    IF need = "No"
    THEN [dir |-> d, file |-> file, cleanup |-> "none", probed |-> FALSE,
          inner |-> "none", result |-> None]
    ELSE IF need = "Err"
    THEN [dir |-> d, file |-> file, cleanup |-> "none", probed |-> FALSE,
          inner |-> "none", result |-> Some(LATEST_URL)]
    ELSE LET r == self_update_check_inner(file, d, v, t, lookup, fault, cut) IN
         [dir |-> r.dir, file |-> r.file, cleanup |-> "none",
          probed |-> TRUE, inner |-> r.res,
          result |-> IF r.res = "true" THEN Some(LATEST_URL) ELSE None]

\* self_update_check: [dir, file, cleanup, probed, inner, result]
self_update_check(file, d, v, t, need, rmFails, lookup, fault, cut) ==
    IF ~FallsThrough(need)
    THEN [dir |-> d, file |-> file, cleanup |-> "none", probed |-> FALSE,
          inner |-> "none",
          result |-> IF need = "KnownOutdated" THEN Some(LATEST_URL) ELSE None]
    ELSE LET purged == IF need = "Err" /\ file.exists /\ ~rmFails
                       THEN NoCheckFile ELSE file
             cleanup == IF need # "Err" THEN "none"
                        ELSE IF file.exists /\ ~rmFails THEN "ok" ELSE "failed"
             r == self_update_check_inner(purged, d, v, t, lookup, fault, cut) IN
         [dir |-> r.dir, file |-> r.file, cleanup |-> cleanup, probed |-> TRUE,
          inner |-> r.res,
          result |-> IF r.res = "true" THEN Some(LATEST_URL) ELSE None]

\* no Db::lookup made: features maps each slug of the database to the rest
\* of its FeatureData, order is the order in which the HashMap yields them
NoLook == [op |-> "none", features |-> <<>>, order |-> <<>>, query |-> <<>>,
           feats |-> <<>>]

(***************************************************************************)
(* Initial state: a fresh installation at time 0                           *)
(***************************************************************************)

\* no lookup and no successful cache_put yet: probe is the time of the last
\* remote lookup, store the time of the last successful cache_put, fetched
\* the time at which the last invocation, having found no cache file, got
\* the database from the network and met no I/O fault (-1 once anything
\* else has happened since)
NoHist == [probe |-> -1, store |-> -1, fetched |-> -1]

\* no invocation is running
Idle ==
    [pc |-> "idle",     \* "idle", then "checked", "fetched", "put", "query"
     db |-> None,       \* the database in hand
     net |-> "none",    \* Db::fetch: "none" (not called), "ok", "err"
     put |-> FALSE,     \* cache_put was called
     absent |-> FALSE,  \* cache_fetch found no cache file
     faulty |-> FALSE,  \* the environment made a call of cache_fetch or
                        \* cache_put fail
     query |-> "none",  \* the argument: "none", "empty", "match", "no match"
     exit |-> "none",   \* how the last invocation ended: "items" (exit 0),
                        \* "error" (error row, exit 1), "panic"
     cause |-> "none"]  \* the error of the error row

\* the two processes
Procs == {1, 2}

\* a process that has not called anything yet
NoProc ==
    [op |-> "none",   \* "load" (cache_fetch) or "store" (cache_put)
     pc |-> "idle",   \* then "metadata", "read", "create", "write",
                      \* "cleanup", "done"
     h |-> 0,         \* the file its handle is on (0: none)
     db |-> None,     \* cache_put: the argument
     buf |-> <<>>,    \* cache_fetch: the bytes read so far
     n |-> 0,         \* cache_put: the bytes written so far
     err |-> "none",  \* the error of the inner function
     result |-> None] \* cache_fetch: what it returned

\* no file at the cache path and no process started; files lists every file
\* there has been, unlinked ones included, and whole is the set of
\* databases that some cache_put has written to its last byte
NoRace ==
    [path |-> 0,
     files |-> <<>>,
     procs |-> [p \in Procs |-> NoProc],
     whole |-> {}]

Init ==
    /\ now = 0
    /\ ver = <<1>>
    /\ dir = FALSE
    /\ cacheFile = NoFile
    /\ checkFile = NoCheckFile
    /\ ev = NoEv
    /\ prev = NoEv
    /\ hist = NoHist
    /\ main = Idle
    /\ race = NoRace
    /\ look = NoLook

\* what a cache call records as the call before it
PrevOf(e) == IF e.op \in {"put", "fetch"} THEN e ELSE NoEv

\* what is kept of a call: all of it when the handler is called on its own;
\* within try_main only what try_main reads or a later invocation depends
\* on (what was returned, whether the environment made a cache call fail,
\* the cache file that was found)
Kept(e, full) ==
    IF full THEN e
    ELSE IF e.op = "check" THEN [NoEv EXCEPT !.op = e.op, !.result = e.result]
    ELSE [NoEv EXCEPT !.op = e.op,
                      !.pre = IF e.op = "fetch" THEN e.pre ELSE "absent",
                      !.fault = e.fault,
                      !.rmFails = e.rmFails,
                      !.result = e.result]

\* the file a call finds, as the history records it
PreOf(file, t) ==
    IF ~file.exists THEN "absent"
    ELSE IF file.created > t THEN "future"
    ELSE IF t - file.created > FOUR_HOURS_SECS THEN "stale"
    ELSE "fresh"

\* the update-check file a call finds, as the history records it
CheckPreOf(file, v, t) ==
    IF ~file.exists THEN "absent"
    ELSE IF ~JsonIsUpdateCheck(file.bytes) THEN "undecodable"
    ELSE LET self == JsonToUpdateCheck(file.bytes) IN
         IF self.checked_with # v THEN "other version"
         ELSE IF self.update_needed THEN "outdated"
         ELSE IF t - self.last_check > DAY_IN_SECS THEN "old"
         ELSE "recent"

(***************************************************************************)
(* Actions: the environment                                                *)
(***************************************************************************)
\* the clock moves to t
SetClock(t) ==
    /\ now' = t
    /\ ev' = NoEv
    /\ prev' = NoEv
    /\ main' = [Idle EXCEPT !.pc = main.pc]
    /\ UNCHANGED <<ver, dir, cacheFile, checkFile, hist, race, look>>

\* time passes
CacheTick == \E t \in CacheTimes : t > now /\ SetClock(t)
UpdateTick == \E t \in UpdateTimes : t > now /\ SetClock(t)

\* the system clock is set back
CacheClockBack == \E t \in CacheTimes : t < now /\ SetClock(t)
UpdateClockBack == \E t \in UpdateTimes : t < now /\ SetClock(t)

\* something else overwrites the cache file with bytes of its own
CorruptCache ==
    /\ \E g \in GarbageBytes :
          cacheFile' = [FileCreate(cacheFile, now) EXCEPT !.bytes = g]
    /\ dir' = TRUE
    /\ ev' = NoEv
    /\ prev' = NoEv
    /\ hist' = [hist EXCEPT !.store = -1, !.fetched = -1]
    /\ main' = [Idle EXCEPT !.pc = main.pc]
    /\ UNCHANGED <<now, ver, checkFile, race, look>>

\* cache_dir: the platform has no cache directory to offer (no home
\* directory), dirs::cache_dir() is None and the unwrap panics.  Each handler
\* calls cache_dir before anything else, so nothing has been done by then.
CacheDirPanics(handler) ==
    /\ ev' = [NoEv EXCEPT !.op = "panic", !.fault = handler]
    /\ prev' = NoEv
    /\ UNCHANGED <<now, ver, dir, cacheFile, checkFile>>

(***************************************************************************)
(* Actions: the cache                                                      *)
(***************************************************************************)
\* one cache_fetch; the environment can fail only a call that is made
CacheFetchCall(full) ==
    \E fault \in FetchFaults :
       LET inner == cache_fetch_inner(cacheFile, now, fault) IN
       /\ fault # "none" => inner.err = fault
       /\ \E rmFails \in (IF ~inner.ok /\ cacheFile.exists THEN BOOLEAN ELSE {FALSE}) :
          LET r == cache_fetch(cacheFile, now, fault, rmFails) IN
          /\ cacheFile' = r.file
          /\ ev' = Kept([NoEv EXCEPT !.op = "fetch",
                                     !.pre = PreOf(cacheFile, now),
                                     !.fault = fault,
                                     !.rmFails = rmFails,
                                     !.err = r.err,
                                     !.cleanup = r.cleanup,
                                     !.result = r.result], full)
          /\ prev' = IF full THEN PrevOf(ev) ELSE NoEv
          /\ UNCHANGED <<now, ver, dir, checkFile>>

CacheFetch == CacheFetchCall(TRUE) /\ UNCHANGED <<hist, main, race, look>>

CacheFetchPanics == CacheDirPanics("fetch") /\ UNCHANGED <<hist, main, race, look>>

\* one cache_put of db
CachePutCall(db, full) ==
    \E fault \in PutFaults :
    \E cut \in (IF fault = "write" THEN WriteCuts(ZstdEncode(DbToJson(db))) ELSE {0}) :
       LET inner == cache_put_inner(db, dir, cacheFile, now, fault, cut) IN
       /\ fault # "none" => inner.err = fault
       /\ \E rmFails \in (IF ~inner.ok /\ inner.file.exists THEN BOOLEAN ELSE {FALSE}) :
          LET r == cache_put(db, dir, cacheFile, now, fault, cut, rmFails) IN
          /\ cacheFile' = r.file
          /\ dir' = r.dir
          /\ ev' = Kept([NoEv EXCEPT !.op = "put",
                                     !.db = Some(db),
                                     !.pre = PreOf(cacheFile, now),
                                     !.fault = fault,
                                     !.rmFails = rmFails,
                                     !.err = r.err,
                                     !.cleanup = r.cleanup], full)
          /\ prev' = IF full THEN PrevOf(ev) ELSE NoEv
          /\ UNCHANGED <<now, ver, checkFile>>

\* one cache_put of a database the network served
CachePut == (\E db \in DbValues : CachePutCall(db, TRUE)) /\ UNCHANGED <<hist, main, race, look>>

CachePutPanics == CacheDirPanics("put") /\ UNCHANGED <<hist, main, race, look>>

(***************************************************************************)
(* Actions: the update check                                               *)
(***************************************************************************)
\* another build of the program is installed
Upgrade ==
    /\ \E v \in Versions : v # ver /\ ver' = v
    /\ ev' = NoEv
    /\ prev' = NoEv
    /\ UNCHANGED <<now, dir, cacheFile, checkFile, hist, main, race, look>>

\* something else overwrites the update-check file with bytes of its own
CorruptCheck ==
    /\ \E g \in GarbageCheckBytes : checkFile' = [exists |-> TRUE, bytes |-> g]
    /\ dir' = TRUE
    /\ ev' = NoEv
    /\ prev' = NoEv
    /\ UNCHANGED <<now, ver, cacheFile, hist, main, race, look>>

\* the lookup's possible answers
LookupResults == {None} \cup { Some(l) : l \in Locations }

\* the environment of the update check within try_main, where only the row
\* it may add matters: the lookup fails or names a newer release, the file
\* is written or the write fails before its first byte
MainLookupResults == {None, Some(<<2>>)}
MainInnerFaults == {"none", "write"}

\* one self_update_check; the environment decides the outcome of each call
\* that is made
SelfUpdateCheckCall(full) ==
    \E readFails \in BOOLEAN :
       LET need == self_need_update_check(checkFile, ver, now, readFails) IN
       \E rmFails \in (IF need = "Err" /\ checkFile.exists THEN BOOLEAN ELSE {FALSE}) :
       \E lookup \in (IF ~FallsThrough(need) THEN {None}
                      ELSE IF full THEN LookupResults ELSE MainLookupResults) :
       \E fault \in (IF lookup = None THEN {"none"}
                     ELSE IF full THEN InnerFaults ELSE MainInnerFaults) :
       \E cut \in (IF fault = "write" /\ full
                   THEN WriteCuts(UpdateCheckToJson(
                            [update_needed |-> TRUE, checked_with |-> ver,
                             last_check |-> now]))
                   ELSE {0}) :
          LET r == self_update_check(checkFile, dir, ver, now, need, rmFails,
                                     lookup, fault, cut) IN
          /\ checkFile' = r.file
          /\ dir' = r.dir
          /\ ev' = Kept([NoEv EXCEPT !.op = "check",
                                     !.pre = CheckPreOf(checkFile, ver, now),
                                     !.readFails = readFails,
                                     !.rmFails = rmFails,
                                     !.fault = fault,
                                     !.need = need,
                                     !.cleanup = r.cleanup,
                                     !.probed = r.probed,
                                     !.lookup = lookup,
                                     !.inner = r.inner,
                                     !.result = r.result], full)
          /\ prev' = NoEv
          /\ UNCHANGED <<now, ver, cacheFile>>

\* the call, and the time of the last remote lookup kept as history
SelfUpdateCheck ==
    /\ SelfUpdateCheckCall(TRUE)
    /\ hist' = [hist EXCEPT !.probe = IF ev'.probed THEN now ELSE @]
    /\ UNCHANGED <<main, race, look>>

SelfUpdateCheckPanics == CacheDirPanics("check") /\ UNCHANGED <<hist, main, race, look>>

NextUpdate ==
    \/ UpdateTick \/ UpdateClockBack \/ Upgrade \/ CorruptCheck
    \/ SelfUpdateCheck \/ SelfUpdateCheckPanics

SpecUpdate == Init /\ [][NextUpdate]_vars

NextCache ==
    \/ CacheTick \/ CacheClockBack \/ CorruptCache
    \/ CacheFetch \/ CachePut \/ CacheFetchPanics \/ CachePutPanics

SpecCache == Init /\ [][NextCache]_vars

\* the calls of one process, and the time of its last successful cache_put
\* kept as history
LoadTracked ==
    /\ CacheFetchCall(TRUE)
    /\ hist' = [hist EXCEPT !.store = IF cacheFile'.exists THEN @ ELSE -1]
    /\ UNCHANGED <<main, race, look>>

StoreTracked ==
    /\ \E db \in DbValues : CachePutCall(db, TRUE)
    /\ hist' = [hist EXCEPT !.store = IF ev'.err = "none" THEN now
                                      ELSE IF cacheFile'.exists THEN @ ELSE -1]
    /\ UNCHANGED <<main, race, look>>

\* one process calling cache_fetch and cache_put over time
NextStore == CacheTick \/ CorruptCache \/ LoadTracked \/ StoreTracked

SpecStore == Init /\ [][NextStore]_vars

(***************************************************************************)
(* main.rs: one invocation after another.  The clock moves and other       *)
(* programs write between invocations.                                     *)
(***************************************************************************)
\* the queries a user types: the empty one, one for each feature slug, and
\* one for a slug no database has
Queries == {<<>>} \cup { <<f>> : f \in 1..(MaxDb + 1) }

\* env::args after the binary's name
Args == {None} \cup { Some(q) : q \in Queries }

\* Db::lookup: the features whose slug contains the query
Matching(db, query) == { f \in db.features : Contains(<<f>>, query) }

\* faulty variant: a query that matches nothing gives an empty list of items
match_query_allows_empty(db, query) == "ok"

\* match_query: "ok", or "no feature match"
match_query(db, query) ==
    IF Matching(db, query) = {} THEN "no feature match" ELSE "ok"

\* try_main from the match on args.next() on: "ok" or the error
ShowOrMatch(db, args) ==
    IF args = None THEN "ok"
    ELSE IF args[1] = <<>> THEN "ok"
    ELSE match_query(db, args[1])

\* the argument as the history records it
QueryClass(db, args) ==
    IF args = None THEN "none"
    ELSE IF args[1] = <<>> THEN "empty"
    ELSE IF Matching(db, args[1]) = {} THEN "no match" ELSE "match"

MainTick == main.pc = "idle" /\ CacheTick

MainCorruptCache == main.pc = "idle" /\ CorruptCache

\* try_main starts: self_update_check_item
MainUpdateCheck ==
    /\ main.pc = "idle"
    /\ SelfUpdateCheckCall(FALSE)
    /\ main' = [Idle EXCEPT !.pc = "checked"]
    /\ UNCHANGED <<hist, race, look>>

\* try_main starts and self_update_check_item panics in cache_dir
MainPanics ==
    /\ main.pc = "idle"
    /\ CacheDirPanics("check")
    /\ main' = [Idle EXCEPT !.exit = "panic"]
    /\ hist' = [hist EXCEPT !.fetched = -1]
    /\ UNCHANGED <<race, look>>

\* match cache_fetch()
MainCacheFetch ==
    /\ main.pc = "checked"
    /\ CacheFetchCall(FALSE)
    /\ main' = [main EXCEPT !.pc = IF ev'.result = None THEN "fetched" ELSE "query",
                            !.db = ev'.result,
                            !.absent = (ev'.pre = "absent"),
                            !.faulty = (ev'.fault # "none" \/ ev'.rmFails)]
    /\ UNCHANGED <<hist, race, look>>

\* Db::fetch(CANIUSE_URL)?: the network serves a database or the call fails,
\* and main ends with the error row
MainDbFetch ==
    /\ main.pc = "fetched"
    /\ \E res \in {None} \cup { Some(db) : db \in DbValues } :
          IF res = None
          THEN /\ main' = [Idle EXCEPT !.net = "err",
                                       !.exit = "error", !.cause = "db fetch"]
               /\ ev' = NoEv
               /\ prev' = NoEv
               /\ hist' = [hist EXCEPT !.fetched = -1]
          ELSE /\ main' = [main EXCEPT !.pc = "put", !.net = "ok", !.db = res]
               /\ UNCHANGED <<ev, prev, hist>>
    /\ UNCHANGED <<now, ver, dir, cacheFile, checkFile, race, look>>

\* cache_put(&db)
MainCachePut ==
    /\ main.pc = "put"
    /\ CachePutCall(main.db[1], FALSE)
    /\ main' = [main EXCEPT !.pc = "query", !.put = TRUE,
                            !.faulty = (@ \/ ev'.fault # "none" \/ ev'.rmFails)]
    /\ UNCHANGED <<hist, race, look>>

\* the match on args.next(), then main writes the items, or the error row
\* and exits with 1; the process is over
MainQuery ==
    /\ main.pc = "query"
    /\ \E args \in Args :
          LET res == ShowOrMatch(main.db[1], args) IN
          main' = [Idle EXCEPT !.net = main.net,
                              !.query = QueryClass(main.db[1], args),
                              !.exit = IF res = "ok" THEN "items" ELSE "error",
                              !.cause = IF res = "ok" THEN "none" ELSE res]
    /\ ev' = NoEv
    /\ prev' = NoEv
    /\ hist' = [hist EXCEPT !.fetched =
                    IF main.absent /\ main.net = "ok" /\ ~main.faulty
                    THEN now ELSE -1]
    /\ UNCHANGED <<now, ver, dir, cacheFile, checkFile, race, look>>

NextMain ==
    \/ MainTick \/ MainCorruptCache
    \/ MainUpdateCheck \/ MainPanics \/ MainCacheFetch \/ MainDbFetch
    \/ MainCachePut \/ MainQuery

SpecMain == Init /\ [][NextMain]_vars

(***************************************************************************)
(* cache.rs, two processes at once: each calls cache_fetch or cache_put    *)
(* once, and their file-system calls interleave.  A file lives on while a  *)
(* handle is open on it, whether or not the path still leads to it.        *)
(***************************************************************************)
\* the cache file is there from an earlier run, just written or too old
RaceTimes == {0, FOUR_HOURS_SECS + 1}

\* what cache_put_inner writes for db
Encoded(db) == ZstdEncode(DbToJson(db))

\* read and write_all move the bytes in two pieces
Half == Len(Encoded(Db(1))) \div 2

Min(a, b) == IF a < b THEN a ELSE b

\* faulty variant: a decoder that takes a truncated frame for an empty database
DecodedLenient(buf) ==
    IF ZstdIsFrame(buf) /\ JsonIsDb(ZstdDecode(buf))
    THEN Some(JsonToDb(ZstdDecode(buf)))
    ELSE IF Len(buf) >= 1 /\ buf[1] = "zstd"
    THEN Some([base_url |-> "caniuse.rs", versions |-> {}, features |-> {}])
    ELSE None

\* zstd::decode_all then serde_json::from_slice: the database, or None for
\* an error
Decoded(buf) ==
    IF ZstdIsFrame(buf) /\ JsonIsDb(ZstdDecode(buf))
    THEN Some(JsonToDb(ZstdDecode(buf)))
    ELSE None

\* write at offset off of a file
WriteAt(bytes, off, chunk) ==
    [i \in 1..(IF Len(bytes) > off + Len(chunk) THEN Len(bytes) ELSE off + Len(chunk))
        |-> IF i > off /\ i <= off + Len(chunk) THEN chunk[i - off]
            ELSE IF i <= Len(bytes) THEN bytes[i] ELSE "hole"]

InitRace ==
    /\ now \in RaceTimes
    /\ ver = <<1>>
    /\ cacheFile = NoFile
    /\ checkFile = NoCheckFile
    /\ ev = NoEv
    /\ prev = NoEv
    /\ hist = NoHist
    /\ main = Idle
    /\ race \in {NoRace} \cup
          { [NoRace EXCEPT !.path = 1,
                           !.files = << [exists |-> TRUE, created |-> 0,
                                         bytes |-> Encoded(v)] >>,
                           !.whole = {v}] : v \in DbValues }
    /\ dir = (race.path # 0)
    /\ look = NoLook

\* cache_fetch_inner: File::open
RaceOpen ==
    \E p \in Procs :
       /\ race.procs[p].pc = "idle"
       /\ race' = [race EXCEPT !.procs[p] =
                     IF race.path = 0
                     THEN [NoProc EXCEPT !.op = "load", !.pc = "done"]
                     ELSE [NoProc EXCEPT !.op = "load", !.pc = "metadata",
                                         !.h = race.path]]
       /\ UNCHANGED <<now, ver, dir, cacheFile, checkFile, ev, prev, hist, main, look>>

\* cache_fetch_inner: metadata, created, elapsed and the age test
RaceMetadata ==
    \E p \in Procs :
       LET me == race.procs[p]
           created == race.files[me.h].created IN
       /\ me.pc = "metadata"
       /\ race' = [race EXCEPT !.procs[p] =
                     IF created > now
                     THEN [me EXCEPT !.pc = "cleanup", !.err = "elapsed"]
                     ELSE IF TooOld(now - created)
                     THEN [me EXCEPT !.pc = "cleanup", !.err = "too old"]
                     ELSE [me EXCEPT !.pc = "read"]]
       /\ UNCHANGED <<now, ver, dir, cacheFile, checkFile, ev, prev, hist, main, look>>

\* cache_fetch_inner: zstd::decode_all reads on from where it stands; at the
\* end of the file it decodes what it has read
RaceRead ==
    \E p \in Procs :
       LET me == race.procs[p]
           bytes == race.files[me.h].bytes
           off == Len(me.buf) IN
       /\ me.pc = "read"
       /\ race' = [race EXCEPT !.procs[p] =
                     IF off < Len(bytes)
                     THEN [me EXCEPT !.buf =
                             @ \o SubSeq(bytes, off + 1, Min(off + Half, Len(bytes)))]
                     ELSE IF Decoded(me.buf) = None
                     THEN [me EXCEPT !.pc = "cleanup", !.err = "decode"]
                     ELSE [me EXCEPT !.pc = "done", !.result = Decoded(me.buf)]]
       /\ UNCHANGED <<now, ver, dir, cacheFile, checkFile, ev, prev, hist, main, look>>

\* cache_fetch, cache_put: the clean-up remove_file after an error, which
\* removes whatever file the path leads to now
RaceCleanUp ==
    \E p \in Procs :
       /\ race.procs[p].pc = "cleanup"
       /\ race' = [race EXCEPT !.path = 0, !.procs[p].pc = "done"]
       /\ UNCHANGED <<now, ver, dir, cacheFile, checkFile, ev, prev, hist, main, look>>

\* cache_put_inner: create_dir_all, then remove_file, which fails when the
\* path leads to no file
RaceRemove ==
    \E p \in Procs, db \in DbValues :
       /\ race.procs[p].pc = "idle"
       /\ race' = IF race.path = 0
                  THEN [race EXCEPT !.procs[p] =
                          [NoProc EXCEPT !.op = "store", !.db = Some(db),
                                         !.pc = "cleanup", !.err = "remove_file"]]
                  ELSE [race EXCEPT !.path = 0,
                                    !.procs[p] =
                          [NoProc EXCEPT !.op = "store", !.db = Some(db),
                                         !.pc = "create"]]
       /\ dir' = TRUE
       /\ UNCHANGED <<now, ver, cacheFile, checkFile, ev, prev, hist, main, look>>

\* cache_put_inner: File::create makes a new file, or truncates the one the
\* path leads to
RaceCreate ==
    \E p \in Procs :
       LET me == race.procs[p] IN
       /\ me.pc = "create"
       /\ race' = IF race.path = 0
                  THEN [race EXCEPT !.files = Append(@, FileCreate(NoFile, now)),
                                    !.path = Len(race.files) + 1,
                                    !.procs[p] = [me EXCEPT !.pc = "write",
                                                            !.h = Len(race.files) + 1]]
                  ELSE [race EXCEPT !.files[race.path] = FileCreate(@, now),
                                    !.procs[p] = [me EXCEPT !.pc = "write",
                                                            !.h = race.path]]
       /\ UNCHANGED <<now, ver, dir, cacheFile, checkFile, ev, prev, hist, main, look>>

\* cache_put_inner: write_all, one piece at a time
RaceWrite ==
    \E p \in Procs :
       LET me == race.procs[p]
           enc == Encoded(me.db[1])
           upto == Min(me.n + Half, Len(enc)) IN
       /\ me.pc = "write"
       /\ race' = [race EXCEPT
                     !.files[me.h].bytes = WriteAt(@, me.n, SubSeq(enc, me.n + 1, upto)),
                     !.procs[p] = [me EXCEPT !.n = upto,
                                             !.pc = IF upto = Len(enc) THEN "done"
                                                    ELSE "write"],
                     !.whole = IF upto = Len(enc) THEN @ \cup {me.db[1]} ELSE @]
       /\ UNCHANGED <<now, ver, dir, cacheFile, checkFile, ev, prev, hist, main, look>>

NextRace ==
    \/ RaceOpen \/ RaceMetadata \/ RaceRead \/ RaceCleanUp
    \/ RaceRemove \/ RaceCreate \/ RaceWrite

SpecRace == InitRace /\ [][NextRace]_vars

\* the whole program: both components over one directory and one clock
(***************************************************************************)
(* Both files under a clock that is set forward and back.  The two         *)
(* handlers are called in any order between clock changes; the calls that  *)
(* write are the ones that succeed, since only the files they leave behind *)
(* matter here, and a cache file first comes to be by another program's    *)
(* hand (cache_put creates none on a missing file).                        *)
(***************************************************************************)
\* one cache_put of a database the network served, no file call failing
SkewCachePut ==
    /\ \E db \in DbValues :
          LET r == cache_put(db, dir, cacheFile, now, "none", 0, FALSE) IN
          /\ cacheFile' = r.file
          /\ dir' = r.dir
          /\ ev' = [NoEv EXCEPT !.op = "put", !.db = Some(db),
                                !.pre = PreOf(cacheFile, now),
                                !.err = r.err, !.cleanup = r.cleanup]
    /\ prev' = NoEv
    /\ UNCHANGED <<now, ver, checkFile, hist, main, race, look>>

\* one cache_fetch; the environment can fail only a call that is made
SkewCacheFetch ==
    /\ \E fault \in FetchFaults :
          LET inner == cache_fetch_inner(cacheFile, now, fault) IN
          /\ fault # "none" => inner.err = fault
          /\ \E rmFails \in (IF ~inner.ok /\ cacheFile.exists THEN BOOLEAN ELSE {FALSE}) :
             LET r == cache_fetch(cacheFile, now, fault, rmFails) IN
             /\ cacheFile' = r.file
             /\ ev' = [NoEv EXCEPT !.op = "fetch",
                                   !.pre = PreOf(cacheFile, now),
                                   !.fault = fault,
                                   !.rmFails = rmFails,
                                   !.err = r.err,
                                   !.cleanup = r.cleanup,
                                   !.result = r.result]
    /\ prev' = NoEv
    /\ UNCHANGED <<now, ver, dir, checkFile, hist, main, race, look>>

\* one self_update_check; the record, when one is written, is written whole
SkewUpdateCheck ==
    /\ \E readFails \in BOOLEAN :
          LET need == self_need_update_check(checkFile, ver, now, readFails) IN
          \E rmFails \in (IF need = "Err" /\ checkFile.exists THEN BOOLEAN ELSE {FALSE}) :
          \E lookup \in (IF ~FallsThrough(need) THEN {None} ELSE LookupResults) :
             LET r == self_update_check(checkFile, dir, ver, now, need, rmFails,
                                        lookup, "none", 0) IN
             /\ checkFile' = r.file
             /\ dir' = r.dir
             /\ ev' = [NoEv EXCEPT !.op = "check",
                                   !.pre = CheckPreOf(checkFile, ver, now),
                                   !.readFails = readFails,
                                   !.rmFails = rmFails,
                                   !.need = need,
                                   !.cleanup = r.cleanup,
                                   !.probed = r.probed,
                                   !.lookup = lookup,
                                   !.inner = r.inner,
                                   !.result = r.result]
    /\ prev' = NoEv
    /\ UNCHANGED <<now, ver, cacheFile, hist, main, race, look>>

NextSkew ==
    \/ UpdateTick \/ UpdateClockBack \/ CorruptCache
    \/ SkewCachePut \/ SkewCacheFetch \/ SkewUpdateCheck

SpecSkew == Init /\ [][NextSkew]_vars

(***************************************************************************)
(* db.rs: Db::lookup.  Strings are sequences of characters: 1 and 2 are    *)
(* lower-case letters, 11 and 12 the same letters in upper case.           *)
(***************************************************************************)
\* the most items, and the most aliases, a feature has
MaxItems == 2

\* str::to_lowercase
ToLower(str) == [i \in 1..Len(str) |-> IF str[i] > 10 THEN str[i] - 10 ELSE str[i]]

\* strsim's bigrams(s): the pairs of neighbouring characters, in order
Bigrams(str) == [i \in 1..(Len(str) - 1) |-> <<str[i], str[i + 1]>>]

\* the bigrams left once one occurrence of g has been used up
RECURSIVE UseUp(_, _)
UseUp(bigrams, g) ==
    IF bigrams = <<>> THEN <<>>
    ELSE IF Head(bigrams) = g THEN Tail(bigrams)
    ELSE <<Head(bigrams)>> \o UseUp(Tail(bigrams), g)

\* strsim::sorensen_dice's loop over the bigrams of b: each one that a still
\* has an unused occurrence of uses it up and counts
RECURSIVE IntersectionSize(_, _)
IntersectionSize(a_bigrams, b_bigrams) ==
    IF b_bigrams = <<>> THEN 0
    ELSE LET g == Head(b_bigrams) IN
         IF \E i \in 1..Len(a_bigrams) : a_bigrams[i] = g
         THEN 1 + IntersectionSize(UseUp(a_bigrams, g), Tail(b_bigrams))
         ELSE IntersectionSize(a_bigrams, Tail(b_bigrams))

\* strsim::sorensen_dice(a, b) as the fraction num / den (no string here
\* holds white space, which sorensen_dice would drop first): 1.0 for equal
\* strings, 0.0 when one of them is shorter than two characters
sorensen_dice(a, b) ==
    IF a = b THEN [num |-> 1, den |-> 1]
    ELSE IF Len(a) < 2 \/ Len(b) < 2 THEN [num |-> 0, den |-> 1]
    ELSE [num |-> 2 * IntersectionSize(Bigrams(a), Bigrams(b)),
          den |-> Len(a) + Len(b) - 2]

\* `score > percent / 100`
Over(score, percent) == score.num * 100 > percent * score.den

\* the inner loops of Db::lookup over items and over aliases: the feature is
\* pushed for each string that contains the query; the `continue` goes on
\* with the next string
RECURSIVE PushPerMatch(_, _, _)
PushPerMatch(feature, strings, query) ==
    IF strings = <<>> THEN <<>>
    ELSE (IF Contains(ToLower(Head(strings)), query) THEN <<feature>> ELSE <<>>)
         \o PushPerMatch(feature, Tail(strings), query)

\* one round of the loop of Db::lookup over the features: what is pushed
\* onto feats for this feature
LookupFeature(feature, query) ==
    IF Contains(ToLower(feature.slug), query) THEN <<feature>>
    ELSE IF feature.flag # None /\ Contains(ToLower(feature.flag[1]), query)
    THEN <<feature>>
    ELSE IF Contains(ToLower(feature.title), query) THEN <<feature>>
    ELSE PushPerMatch(feature, feature.items, query)
         \o PushPerMatch(feature, feature.aliases, query)
         \o (IF Over(sorensen_dice(query, ToLower(feature.slug)), 65)
             THEN <<feature>>
             ELSE IF /\ feature.flag # None
                     /\ Over(sorensen_dice(query, ToLower(feature.flag[1])), 65)
             THEN <<feature>>
             ELSE IF Over(sorensen_dice(query, ToLower(feature.title)), 40)
             THEN <<feature>>
             ELSE <<>>)

\* Db::lookup, the HashMap yielding the features in the order `order`
RECURSIVE lookup(_, _)
lookup(order, query) ==
    IF order = <<>> THEN <<>>
    ELSE LookupFeature(Head(order), query) \o lookup(Tail(order), query)

\* FeatureData as far as lookup reads it
Slugs == { <<1>>, <<2, 2>> }
Flags == { None, Some(<<1, 2>>) }
Titles == { <<11, 2>>, <<2>> }
Items == { <<1>>, <<2>> }
Aliases == { <<1>> }
ItemLists == UNION { [1..n -> Items] : n \in 0..MaxItems }
AliasLists == UNION { [1..n -> Aliases] : n \in 0..MaxItems }

FeatureData(slug, rest) ==
    [slug |-> slug, flag |-> rest.flag, title |-> rest.title,
     items |-> rest.items, aliases |-> rest.aliases]

\* the databases: Db.features is a HashMap keyed by slug, so no two features
\* of a database share a slug
FeatureMaps(slugs) ==
    UNION { { { FeatureData(slug, rest[slug]) : slug \in keys } :
                rest \in [keys -> [flag : Flags, title : Titles,
                                   items : ItemLists, aliases : AliasLists]] } :
            keys \in SUBSET slugs }

\* the orders in which HashMap::values can yield the features
Orders(features) ==
    { order \in [1..Cardinality(features) -> features] :
         \A i, j \in DOMAIN order : order[i] = order[j] => i = j }

\* the queries: empty, one letter in either case, and two that are close to
\* a slug, a flag or a title without being part of one
LookupQueries == { <<>>, <<1>>, <<2>>, <<11>>, <<1, 2, 2>>, <<2, 2, 2>> }

\* the database the network or the cache file gave
InitLookup ==
    /\ now = 0
    /\ ver = <<1>>
    /\ dir = FALSE
    /\ cacheFile = NoFile
    /\ checkFile = NoCheckFile
    /\ ev = NoEv
    /\ prev = NoEv
    /\ hist = NoHist
    /\ main = Idle
    /\ race = NoRace
    /\ look \in { [NoLook EXCEPT !.features = features] : features \in FeatureMaps(Slugs) }

\* one Db::lookup on the database
DbLookup ==
    /\ \E query \in LookupQueries :
       \E order \in Orders(look.features) :
          look' = [look EXCEPT !.op = "lookup",
                               !.order = order,
                               !.query = query,
                               !.feats = lookup(order, query)]
    /\ UNCHANGED <<now, ver, dir, cacheFile, checkFile, ev, prev, hist, main, race>>

NextLookup == DbLookup

SpecLookup == InitLookup /\ [][NextLookup]_vars

Next == NextCache \/ NextUpdate

Spec == Init /\ [][Next]_vars

(***************************************************************************)
(* Properties of the cache                                                 *)
(***************************************************************************)
\* the bytes decompress and deserialize to a database
Decodable(bytes) == ZstdIsFrame(bytes) /\ JsonIsDb(ZstdDecode(bytes))

\* C1 (as stated): Round-trip. A cache_put(V) followed immediately by a
\* cache_fetch(), no file-system call failing for an outside reason, returns
\* Some(V), whatever the cache directory held before, a missing file included.
C1_RoundTrip ==
    (/\ prev.op = "put" /\ prev.fault = "none"
     /\ ev.op = "fetch" /\ ev.fault = "none")
    => ev.result = prev.db

\* C2 (as stated): TTL validity. cache_fetch returns the cached value if and
\* only if the file exists, is readable, is decodable and
\* now - created_at <= 4 hours; and a file older than that makes it return
\* None and (its delete succeeding) is gone afterwards.
C2_TtlValidityAsStated ==
    [][ev'.op = "fetch" =>
         /\ (ev'.result # None) <=>
               (/\ cacheFile.exists
                /\ ev'.fault = "none"
                /\ Decodable(cacheFile.bytes)
                /\ now - cacheFile.created <= FOUR_HOURS_SECS)
         /\ (cacheFile.exists /\ now - cacheFile.created > FOUR_HOURS_SECS)
               => (ev'.result = None /\ (~ev'.rmFails => ~cacheFile'.exists))
      ]_vars

\* C2 (amended): TTL validity. cache_fetch returns the cached value if and
\* only if the file exists, is readable, is decodable and
\* 0 <= now - created_at <= 4 hours (an age of exactly 4 hours is valid, a
\* creation time in the future is not), and the value returned is the one the
\* bytes decode to; a file older than 4 hours makes it return None and (its
\* delete succeeding) is gone afterwards.
C2_TtlValidity ==
    [][ev'.op = "fetch" =>
         /\ (ev'.result # None) <=>
               (/\ cacheFile.exists
                /\ ev'.fault = "none"
                /\ Decodable(cacheFile.bytes)
                /\ cacheFile.created <= now
                /\ now - cacheFile.created <= FOUR_HOURS_SECS)
         /\ ev'.result # None =>
               (/\ DbToJson(ev'.result[1]) = ZstdDecode(cacheFile.bytes)
                /\ cacheFile' = cacheFile)
         /\ (cacheFile.exists /\ now - cacheFile.created > FOUR_HOURS_SECS)
               => (ev'.result = None /\ (~ev'.rmFails => ~cacheFile'.exists))
      ]_vars

\* C2 witness: a fetch of a file aged exactly 4 hours returned its value
C2_Witness ==
    /\ ev.op = "fetch" /\ ev.result # None
    /\ now - cacheFile.created = FOUR_HOURS_SECS

\* one of the four failure causes of a fetch is present
FailureCause(file, t, fault) ==
    \/ fault = "open"
    \/ /\ file.exists
       /\ \/ fault = "metadata"
          \/ t - file.created > FOUR_HOURS_SECS
          \/ /\ file.created <= t
             /\ \/ fault = "read"
                \/ ~ZstdIsFrame(file.bytes)
                \/ ~JsonIsDb(ZstdDecode(file.bytes))

\* C3: Corruption self-heal. For each failure cause of cache_fetch (an I/O
\* error other than not-found, age over the TTL, bytes that do not decompress,
\* bytes that do not deserialize) the call returns None and tries to delete
\* the file, which is gone unless that delete fails; after a fetch whose
\* delete succeeded, the next fetch (its open not failing) finds no file and
\* returns None without an error.
C3_SelfHeal ==
    [][ev'.op = "fetch" =>
         /\ FailureCause(cacheFile, now, ev'.fault) =>
               (/\ ev'.result = None
                /\ ev'.err # "none"
                /\ ev'.cleanup # "none"
                /\ (cacheFile.exists /\ ~ev'.rmFails) => ~cacheFile'.exists)
         /\ (ev.op = "fetch" /\ ev.cleanup = "ok" /\ ev'.fault # "open") =>
               (/\ ev'.pre = "absent"
                /\ ev'.result = None
                /\ ev'.err = "none"
                /\ ev'.cleanup = "none")
      ]_vars

\* C3 witness: a fetch hit bytes that are no zstd frame and deleted the file,
\* and the fetch right after it found nothing and returned None cleanly
C3_Witness ==
    /\ prev.op = "fetch" /\ prev.err = "zstd" /\ prev.cleanup = "ok"
    /\ ev.op = "fetch" /\ ev.err = "none" /\ ev.result = None
    /\ ~cacheFile.exists

\* C4: Replace resets freshness. When the file exists and is older than the
\* TTL, a cache_put(V) followed immediately by a cache_fetch() (no
\* file-system call failing for an outside reason) returns Some(V), and the
\* file's creation time is the time of the put.
C4_ReplaceResetsFreshness ==
    (/\ prev.op = "put" /\ prev.pre = "stale" /\ prev.fault = "none"
     /\ ev.op = "fetch" /\ ev.fault = "none")
    => (/\ ev.result = prev.db
        /\ cacheFile.exists
        /\ cacheFile.created = now)

\* C4 witness: a put over a stale file, then a fetch that returned the value
C4_Witness ==
    /\ prev.op = "put" /\ prev.pre = "stale" /\ prev.fault = "none"
    /\ ev.op = "fetch" /\ ev.result = prev.db /\ ev.result # None

(***************************************************************************)
(* Properties of the update check                                          *)
(***************************************************************************)
\* the record a readable update-check file holds
RecordOf(file) == JsonToUpdateCheck(file.bytes)
Readable(file, readFails) ==
    file.exists /\ ~readFails /\ JsonIsUpdateCheck(file.bytes)

\* C5: Update-check decision table. For a record that is read and decoded the
\* decision is Yes when checked_with differs from the running version;
\* otherwise KnownOutdated when update_needed; otherwise Yes when
\* now - last_check > 24 hours; otherwise No (24 hours exactly gives No).
C5_DecisionTable ==
    [][(ev'.op = "check" /\ Readable(checkFile, ev'.readFails)) =>
         LET r == RecordOf(checkFile) IN
         /\ r.checked_with # ver => ev'.need = "Yes"
         /\ (r.checked_with = ver /\ r.update_needed) => ev'.need = "KnownOutdated"
         /\ (r.checked_with = ver /\ ~r.update_needed
               /\ now - r.last_check > 3600 * 24) => ev'.need = "Yes"
         /\ (r.checked_with = ver /\ ~r.update_needed
               /\ now - r.last_check <= 3600 * 24) => ev'.need = "No"
      ]_vars

\* C5 witness: a record of the running version, no update needed, checked
\* exactly 24 hours ago, gave the decision No
C5_Witness ==
    /\ ev.op = "check" /\ ev.need = "No"
    /\ checkFile.exists /\ JsonIsUpdateCheck(checkFile.bytes)
    /\ now - RecordOf(checkFile).last_check = 3600 * 24

\* C6: Corrupt update record. When the file exists but cannot be read or
\* decoded, the check tries to delete it, makes the remote lookup, and reports
\* an update only as the lookup's own result: the lookup answered a location
\* without the running version and the new record was written.
C6_CorruptRecord ==
    [][(/\ ev'.op = "check"
        /\ checkFile.exists
        /\ ~Readable(checkFile, ev'.readFails)) =>
         /\ ev'.need = "Err"
         /\ ev'.cleanup # "none"
         /\ ev'.cleanup = "ok" <=> ~ev'.rmFails
         /\ ev'.probed
         /\ ev'.result # None <=>
              (/\ ev'.lookup # None
               /\ ~Contains(ev'.lookup[1], ver)
               /\ ev'.fault = "none")
         /\ ev'.result # None =>
              (/\ Readable(checkFile', FALSE)
               /\ RecordOf(checkFile').update_needed
               /\ RecordOf(checkFile').last_check = now)
         /\ (ev'.lookup = None /\ ~ev'.rmFails) => ~checkFile'.exists
      ]_vars

\* C6 witness: an undecodable file was deleted, the lookup was made and
\* answered that the running version is the latest
C6_Witness ==
    /\ ev.op = "check" /\ ev.need = "Err" /\ ~ev.readFails
    /\ ev.cleanup = "ok" /\ ev.probed /\ ev.inner = "false"
    /\ ev.result = None

\* C7: Missing update record. When the file does not exist (the read answers
\* NotFound) the decision is Yes, the lookup is made and no delete of the file
\* is attempted.
C7_MissingRecord ==
    [][(ev'.op = "check" /\ ~checkFile.exists /\ ~ev'.readFails) =>
         /\ ev'.need = "Yes"
         /\ ev'.probed
         /\ ev'.cleanup = "none"
      ]_vars

\* C7 witness: a check with no file made the lookup and wrote the first record
C7_Witness ==
    /\ ev.op = "check" /\ ev.need = "Yes" /\ ev.probed
    /\ ev.cleanup = "none" /\ ev.inner = "false"
    /\ Readable(checkFile, FALSE)
    /\ RecordOf(checkFile).last_check = now

\* C8: Short-circuit decisions. With the decision KnownOutdated the check
\* reports the update, with No it reports nothing; in both no lookup is made
\* and the file is neither rewritten nor deleted.
C8_ShortCircuit ==
    [][ev'.op = "check" =>
         /\ ev'.need = "KnownOutdated" => ev'.result = Some(LATEST_URL)
         /\ ev'.need = "No" => ev'.result = None
         /\ ev'.need \in {"KnownOutdated", "No"} =>
              (/\ ~ev'.probed
               /\ ev'.lookup = None
               /\ ev'.cleanup = "none"
               /\ checkFile' = checkFile
               /\ dir' = dir)
      ]_vars

\* C8 witness: a check answered from a record that says an update is needed
C8_Witness ==
    /\ ev.op = "check" /\ ev.need = "KnownOutdated"
    /\ ev.result = Some(LATEST_URL) /\ ~ev.probed
    /\ Readable(checkFile, FALSE) /\ RecordOf(checkFile).update_needed

\* C9: Successful probe. When the decision is Yes, the lookup answers a
\* location L and the record is persisted (no file call fails), the file
\* holds the record checked_with = running version, last_check = now,
\* update_needed = (L does not contain the running version), and the check
\* reports the update exactly when update_needed is true.
C9_SuccessfulProbe ==
    [][(/\ ev'.op = "check" /\ ev'.need = "Yes"
        /\ ev'.lookup # None /\ ev'.fault = "none") =>
         /\ Readable(checkFile', FALSE)
         /\ RecordOf(checkFile') =
              [update_needed |-> ~Contains(ev'.lookup[1], ver),
               checked_with |-> ver,
               last_check |-> now]
         /\ ev'.result = Some(LATEST_URL) <=> RecordOf(checkFile').update_needed
         /\ ev'.result # Some(LATEST_URL) => ev'.result = None
      ]_vars

\* C9 witness: the lookup answered a location that holds the running version
\* inside a longer one, and the record says no update is needed
C9_Witness ==
    /\ ev.op = "check" /\ ev.need = "Yes" /\ ev.fault = "none"
    /\ ev.lookup = Some(<<2, 1>>) /\ ver = <<1>>
    /\ Readable(checkFile, FALSE) /\ ~RecordOf(checkFile).update_needed
    /\ ev.result = None

\* C10: Failed probe. When the lookup fails the check reports nothing and
\* leaves the file (and the directory) as they were before the lookup: the
\* file as the check found it, or deleted if it could not be read.
C10_FailedProbe ==
    [][(ev'.op = "check" /\ ev'.probed /\ ev'.lookup = None) =>
         /\ ev'.result = None
         /\ ev'.inner = "err"
         /\ checkFile' = (IF ev'.cleanup = "ok" THEN NoCheckFile ELSE checkFile)
         /\ dir' = dir
      ]_vars

\* C10 witness: a stale record was due for a lookup, the lookup failed and
\* the record is still there
C10_Witness ==
    /\ ev.op = "check" /\ ev.need = "Yes" /\ ev.probed /\ ev.lookup = None
    /\ ev.result = None
    /\ Readable(checkFile, FALSE)
    /\ now - RecordOf(checkFile).last_check > 3600 * 24

(***************************************************************************)
(* Properties over several invocations                                     *)
(***************************************************************************)
\* C11 (as stated): two remote lookups are never made less than 24 hours
\* apart, whatever the invocations in between.
C11_AtMostDaily ==
    [][(ev'.op = "check" /\ ev'.probed /\ hist.probe >= 0)
        => now - hist.probe >= DAY_IN_SECS]_vars

\* C11 (amended): a remote lookup is made more than 24 hours after the last
\* one whenever the record of the last one is on file and readable and was
\* written by the running version.  A lookup that failed or whose record
\* was not persisted, a change of the running version and an unreadable
\* record are each followed by a lookup at the next invocation.
C11_DailyWhileRecorded ==
    [][(/\ ev'.op = "check" /\ ev'.probed /\ hist.probe >= 0
        /\ Readable(checkFile, ev'.readFails)
        /\ RecordOf(checkFile).checked_with = ver
        /\ RecordOf(checkFile).last_check = hist.probe)
        => now - hist.probe > DAY_IN_SECS]_vars

\* a lookup made by the version that wrote the record on file, which it
\* read and found more than a day old
C11_Witness ==
    /\ ev.op = "check" /\ ev.probed /\ ~ev.readFails
    /\ ev.pre = "old" /\ ev.need = "Yes"
    /\ hist.probe = now

\* C12 (as stated): A failed store leaves nothing masquerading as fresh.
\* After a cache_put in which any step failed, the cache_fetch that follows
\* immediately returns None.
C12_FailedStore ==
    (prev.op = "put" /\ prev.err # "none" /\ ev.op = "fetch")
        => ev.result = None

\* C12 (amended): after a cache_put in which a step failed, the cache_fetch
\* that follows immediately returns None provided the clean-up delete of the
\* put succeeded or found no file.  When that delete fails as well, the fetch
\* may return a value only after a put that failed before it touched the
\* file (create_dir_all or remove_file), and the value is then the whole
\* content of the file the put found fresh; a partially written file is
\* never decoded to a value.
C12_FailedStoreCleaned ==
    (prev.op = "put" /\ prev.err # "none" /\ ev.op = "fetch")
        => /\ ~prev.rmFails => ev.result = None
           /\ ev.result # None =>
                 /\ prev.err \in {"create_dir_all", "remove_file"}
                 /\ prev.pre = "fresh"
                 /\ cacheFile.exists /\ Decodable(cacheFile.bytes)
                 /\ ev.result = Some(JsonToDb(ZstdDecode(cacheFile.bytes)))

\* C12 witness: the write of a put failed part-way and its clean-up delete
\* failed too; the fetch right after it met the partial file, could not
\* decompress it and returned None
C12_Witness ==
    /\ prev.op = "put" /\ prev.err = "write" /\ prev.rmFails
    /\ prev.cleanup = "failed"
    /\ ev.op = "fetch" /\ ev.err = "zstd" /\ ev.result = None

\* C13 (as stated): Update record integrity. A self_update_check leaves the
\* update-check file absent, or holding one complete decodable record, or as
\* it found it; it never leaves it empty or partially written, and it
\* deletes the file only after a read or decode failure.
C13_RecordIntegrity ==
    [][ev'.op = "check" =>
         /\ checkFile'.exists =>
               \/ JsonIsUpdateCheck(checkFile'.bytes)
               \/ checkFile' = checkFile
         /\ (checkFile.exists /\ ~checkFile'.exists) => ev'.need = "Err"
      ]_vars

\* C14 (as stated): No core failure is fatal. Whatever the outcome of each
\* file-system, clock, decode and network step, the platform cache directory
\* being unresolvable included, cache_fetch, cache_put and self_update_check
\* return to their caller: no call ends in a panic.
C14_NoCoreFailureFatal == ev.op # "panic"

\* C17 (as stated): Creation time tracks the last write. After any sequence
\* of cache_fetch and cache_put calls of one process, whenever the cache file
\* exists its creation time is the time of the most recent cache_put that
\* succeeded.  (There is one cache path, so at most one file.)
C17_CreationTracksStore ==
    (hist.store >= 0 /\ cacheFile.exists)
        => cacheFile.created = hist.store

\* C17 (amended): whenever the cache file exists and holds a complete value,
\* its creation time is the time of the most recent cache_put that
\* succeeded.  A cache_put whose write fails after File::create and whose
\* clean-up delete fails too leaves an undecodable file created at the time
\* of that failed call.
C17_CreationTracksCompleteStore ==
    (hist.store >= 0 /\ cacheFile.exists /\ Decodable(cacheFile.bytes))
        => cacheFile.created = hist.store

\* C17 witness: a cache_put found a file older than the TTL, replaced it, and
\* the new file was created at the time of this call
C17_Witness ==
    /\ ev.op = "put" /\ ev.pre = "stale" /\ ev.err = "none"
    /\ cacheFile.exists /\ Decodable(cacheFile.bytes)
    /\ hist.store = now /\ cacheFile.created = now

\* C18: Clean absence. When the cache file does not exist (the open reports
\* NotFound), cache_fetch returns None without an error, attempts no delete
\* and creates neither a file nor the cache directory.  In every case
\* cache_fetch creates and writes nothing: the cache file is as it was or
\* has been deleted, the directory and the update-check file are as they were.
C18_CleanAbsence ==
    [][ev'.op = "fetch" =>
         /\ (~cacheFile.exists /\ ev'.fault = "none") =>
               /\ ev'.result = None
               /\ ev'.err = "none"
               /\ ev'.cleanup = "none"
               /\ cacheFile' = cacheFile
         /\ \/ cacheFile' = cacheFile
            \/ cacheFile.exists /\ cacheFile' = NoFile
         /\ dir' = dir
         /\ checkFile' = checkFile
      ]_vars

\* C18 witness: a cache_fetch on a fresh installation found no file, returned
\* None, tried no delete, and there is still no directory and no file
C18_Witness ==
    /\ ev.op = "fetch" /\ ev.pre = "absent" /\ ev.fault = "none"
    /\ ev.result = None /\ ev.err = "none" /\ ev.cleanup = "none"
    /\ ~dir /\ ~cacheFile.exists

\* the update-check file holds a decodable record with update_needed = true
\* that the running version wrote
KnownOutdatedOnFile ==
    /\ checkFile.exists /\ JsonIsUpdateCheck(checkFile.bytes)
    /\ RecordOf(checkFile).update_needed
    /\ RecordOf(checkFile).checked_with = ver

\* C20: KnownOutdated is absorbing. Once the update-check file holds a
\* decodable record with update_needed = true written by the running version,
\* a self_update_check that reads it reports the update, makes no remote
\* lookup and leaves the file as it is, however old the record; a lookup is
\* made from there only when the read fails, and the passing of time alone
\* changes nothing.
C20_KnownOutdatedAbsorbing ==
    [][KnownOutdatedOnFile =>
         /\ (ev'.op = "check" /\ ~ev'.readFails) =>
               /\ ev'.need = "KnownOutdated"
               /\ ev'.result = Some(LATEST_URL)
               /\ ~ev'.probed
               /\ checkFile' = checkFile
               /\ KnownOutdatedOnFile'
         /\ (ev'.op = "check" /\ ev'.probed) => ev'.readFails
         /\ (ver' = ver /\ checkFile' = checkFile) => KnownOutdatedOnFile'
      ]_vars

\* C20 witness: a self_update_check read a record with update_needed = true
\* that is more than a day old, reported the update and made no lookup
C20_Witness ==
    /\ ev.op = "check" /\ ev.pre = "outdated" /\ ~ev.readFails
    /\ ev.need = "KnownOutdated" /\ ev.result = Some(LATEST_URL) /\ ~ev.probed
    /\ KnownOutdatedOnFile
    /\ now - RecordOf(checkFile).last_check > DAY_IN_SECS

C19_FetchOrReuse ==
    [][/\ (main.pc = "fetched" /\ main'.net # "none")
            => (ev.op = "fetch" /\ ev.result = None)
       /\ (main.pc = "query" /\ main'.pc = "idle")
            => /\ main.put <=> main.net = "ok"
               /\ (/\ hist.fetched >= 0
                   /\ now >= hist.fetched
                   /\ now - hist.fetched < FOUR_HOURS_SECS
                   /\ ~main.faulty)
                    => main.net = "none"
      ]_vars

(***************************************************************************)
(* Properties of two processes at once                                     *)
(***************************************************************************)
\* C16: Races between two simultaneous invocations are benign. Under every
\* interleaving of the file steps of two processes, a cache_fetch returns
\* None or a database that some cache_put wrote to its last byte (or that
\* was in the file before), never one decoded from a partly written or
\* mixed file; and once both are done the path leads to no file or to a
\* complete one.
C16_RacesBenign ==
    /\ \A p \in Procs :
          LET me == race.procs[p] IN
          me.result # None =>
             /\ me.op = "load" /\ me.pc = "done"
             /\ me.result[1] \in race.whole
    /\ (\A p \in Procs : race.procs[p].pc = "done") =>
          \/ race.path = 0
          \/ Decoded(race.files[race.path].bytes) # None

\* C16 witness: a cache_fetch opened the file the other process's cache_put
\* had created and not yet written to the end, read a part of it, could not
\* decode it and returned None; the cache_put wrote on to the end
C16_Witness ==
    \E p, q \in Procs :
       /\ race.procs[p].op = "load" /\ race.procs[p].pc = "done"
       /\ race.procs[p].err = "decode" /\ race.procs[p].result = None
       /\ race.procs[q].op = "store" /\ race.procs[q].pc = "done"
       /\ race.procs[q].err = "none"
       /\ race.procs[p].h = race.procs[q].h
       /\ Len(race.procs[p].buf) > 0
       /\ Len(race.procs[p].buf) < Len(Encoded(race.procs[q].db[1]))

(***************************************************************************)
(* Properties of the probe's report                                        *)
(***************************************************************************)
\* C21: Notification implies persisted record. Whenever the probe path of
\* the update check (the lookup was made) reports 'update available', the
\* update-check file holds a complete record with update_needed = true and
\* checked_with = running version, written by this run (last_check = now);
\* and if the lookup answered but creating or writing the record failed, the
\* check reports nothing, also when the location shows an update is needed.
C21_NotificationImpliesRecord ==
    [][(ev'.op = "check" /\ ev'.probed) =>
         /\ ev'.result # None =>
               /\ ev'.result = Some(LATEST_URL)
               /\ Readable(checkFile', FALSE)
               /\ RecordOf(checkFile') =
                    [update_needed |-> TRUE, checked_with |-> ver,
                     last_check |-> now]
         /\ (ev'.lookup # None /\ ev'.fault # "none") =>
               /\ ev'.result = None
               /\ ev'.inner = "err"
      ]_vars

\* C21 witness: the lookup named a newer release, the record was written to
\* its last byte over an older one and the check reports the update
C21_Witness ==
    /\ ev.op = "check" /\ ev.probed /\ ev.pre = "old"
    /\ ev.lookup = Some(<<2>>) /\ ev.fault = "none"
    /\ ev.result = Some(LATEST_URL)
    /\ Readable(checkFile, FALSE) /\ RecordOf(checkFile).update_needed
    /\ RecordOf(checkFile).last_check = now

\* the other case of C21: the location names a newer release, the write of
\* the record stopped half-way and the check reports nothing
C21_UnwrittenSilent ==
    /\ ev.op = "check" /\ ev.probed /\ ev.fault = "write"
    /\ ev.lookup = Some(<<2>>) /\ UpdateNeeded(<<2>>, ver)
    /\ ev.result = None
    /\ checkFile.exists /\ Len(checkFile.bytes) > 0 /\ ~Readable(checkFile, FALSE)

(***************************************************************************)
(* Properties under clock skew                                             *)
(***************************************************************************)
\* C22: Clock skew on the artifact file. When the cache file's creation time
\* is later than the current time, cache_fetch returns None and handles the
\* file as corrupt: the age computation is the call that fails (no other
\* call having failed before it), remove_file is called and the file is gone
\* unless that delete fails.  An update record that is read, whose
\* last_check is later than the current time, with checked_with = running
\* version and update_needed = false, gives the decision No: no lookup is
\* made, nothing is reported and the record stays.
C22_ClockSkew ==
    [][/\ (ev'.op = "fetch" /\ cacheFile.exists /\ cacheFile.created > now) =>
            /\ ev'.result = None
            /\ ev'.fault = "none" => ev'.err = "elapsed"
            /\ ev'.cleanup # "none"
            /\ ~ev'.rmFails => ~cacheFile'.exists
       /\ (/\ ev'.op = "check" /\ Readable(checkFile, ev'.readFails)
           /\ RecordOf(checkFile).last_check > now
           /\ RecordOf(checkFile).checked_with = ver
           /\ ~RecordOf(checkFile).update_needed) =>
            /\ ev'.need = "No"
            /\ ~ev'.probed
            /\ ev'.result = None
            /\ checkFile' = checkFile
      ]_vars

\* C22 witness: with the clock set back by more than a day, a cache_fetch
\* found a file created later than now and deleted it, while the update
\* record on file, checked later than now, was left to stand
C22_Witness ==
    /\ ev.op = "fetch" /\ ev.pre = "future" /\ ev.err = "elapsed"
    /\ ev.result = None /\ ev.cleanup = "ok" /\ ~cacheFile.exists
    /\ Readable(checkFile, FALSE)
    /\ RecordOf(checkFile).last_check - now > DAY_IN_SECS
    /\ RecordOf(checkFile).checked_with = ver
    /\ ~RecordOf(checkFile).update_needed

\* the other case of C22: the update check read a record checked more than
\* a day later than now and decided No, while a cache file created later
\* than now is on disk
C22_RecordFromTheFuture ==
    /\ ev.op = "check" /\ ev.need = "No" /\ ~ev.probed /\ ev.result = None
    /\ Readable(checkFile, FALSE)
    /\ RecordOf(checkFile).last_check - now > DAY_IN_SECS
    /\ cacheFile.exists /\ cacheFile.created > now
    /\ Decodable(cacheFile.bytes)

(***************************************************************************)
(* Properties of Db::lookup                                                *)
(***************************************************************************)
\* one of the match rules of Db::lookup holds of the feature
RuleHolds(feature, query) ==
    \/ Contains(ToLower(feature.slug), query)
    \/ feature.flag # None /\ Contains(ToLower(feature.flag[1]), query)
    \/ Contains(ToLower(feature.title), query)
    \/ \E i \in DOMAIN feature.items : Contains(ToLower(feature.items[i]), query)
    \/ \E i \in DOMAIN feature.aliases : Contains(ToLower(feature.aliases[i]), query)
    \/ Over(sorensen_dice(query, ToLower(feature.slug)), 65)
    \/ feature.flag # None /\ Over(sorensen_dice(query, ToLower(feature.flag[1])), 65)
    \/ Over(sorensen_dice(query, ToLower(feature.title)), 40)

\* the features of the returned list are exactly those a rule holds of
ExactlyTheMatching ==
    { look.feats[i] : i \in DOMAIN look.feats } =
       { feature \in look.features : RuleHolds(feature, look.query) }

\* no feature is in the returned list twice
EachOnce ==
    \A i, j \in DOMAIN look.feats : look.feats[i] = look.feats[j] => i = j

\* C23: Lookup returns each feature at most once. For every database and
\* query the list Db::lookup returns holds exactly the features of which at
\* least one match rule (slug, flag, title, item, alias, similarity
\* threshold) holds, and holds no feature more than once, also when several
\* of its items or aliases match the query.
C23_LookupEachOnce ==
    look.op = "lookup" => (ExactlyTheMatching /\ EachOnce)

\* the part of C23 that holds: as a set, the list is the matching features
C23_LookupExactAsSet ==
    look.op = "lookup" => ExactlyTheMatching

\* a lookup in which two items of one feature match, which is then in the
\* list twice
C23_TwoItemsMatch ==
    /\ look.op = "lookup" /\ look.query = <<1>>
    /\ \E feature \in look.features :
          /\ feature.items = << <<1>>, <<1>> >> /\ feature.aliases = <<>>
          /\ look.feats = <<feature, feature>>

====
